---------------------------- MODULE Spec2Model ----------------------------
(***************************************************************************)
(* The topology-analysis page of the network-engineering assistant: the    *)
(* image-upload form, the asynchronous submission lifecycle with its       *)
(* cosmetic progress animation, and the error / results presentation.      *)
(*                                                                         *)
(* Strings that the code inspects (MIME types, the query text) are         *)
(* sequences of one-character strings; a text shown to the user is a       *)
(* string; an optional value (a JSON field, a nullable variable, the       *)
(* first file of a FileList) is <<>> when absent and <<v>> when present.   *)
(***************************************************************************)
EXTENDS Integers, Sequences, FiniteSets, TLC

VARIABLES
    dataMaxSize,     \* parseInt(fileInput.dataset.maxSize): <<>> is NaN, <<n>> a number
    fileInput,       \* fileInput.files: <<>> or <<file>>
    queryText,       \* replacementQuery.value
    errorDisplay,    \* #error-section style.display
    errorText,       \* #error-text textContent
    resultsDisplay,  \* #results-section style.display
    overlayDisplay,  \* #loading-overlay style.display
    currentResults,  \* let currentResults
    currentStep,     \* let currentStep
    stepInterval,    \* let stepInterval: <<>> is null, <<h>> an interval handle
    timers,          \* the interval timers the browser has scheduled (handles)
    stepClass,       \* classList of each .step element
    requests,        \* the handleFormSubmit invocations suspended at an await
    submitted,       \* number of requests issued so far (also the last handle)
    sections,        \* content of each section of the results region
    diagrams,        \* content of the three diagram containers
    downloadLinks,   \* style.display and href of the two download links
    activePanes,     \* the .tab-pane elements of class active
    activeButtons,   \* the .tab-button elements of class active
    layoutTimers,    \* pending setTimeout callbacks of showTab
    layoutRuns,      \* mermaid.run() calls of those callbacks not yet settled
    filePreview,     \* #file-preview innerHTML: <<>> or <<file>>, the file shown
    reads,           \* the files a FileReader is reading (onload not yet fired)
    downloads,       \* the files exportResults has made the browser download
    log,             \* AdminPanel: the log state, one string per entry
    calls,           \* AdminPanel: the trigger invocations awaiting a promise
    triggered,       \* AdminPanel: number of trigger calls so far
    messages,        \* ChatInterface: the messages state
    inputText,       \* ChatInterface: the inputText state
    isLoading,       \* ChatInterface: the isLoading state
    asking,          \* ChatInterface: the handleSendMessage awaiting a promise
    sent,            \* ChatInterface: number of requests sent so far
    byteCount,       \* the argument of a call of formatFileSize
    formatted        \* what the call returned: <<>> before it returns

\* the results region's content
domVars == <<sections, diagrams, downloadLinks>>

\* the tab navigator
tabVars == <<activePanes, activeButtons, layoutTimers, layoutRuns>>

\* the preview renderer
previewVars == <<filePreview, reads>>

\* the admin control panel
adminVars == <<log, calls, triggered>>

\* the chat interface
chatVars == <<messages, inputText, isLoading, asking, sent>>

\* the state of the React components, which the analysis page never touches
reactVars == <<adminVars, chatVars>>

\* a call of formatFileSize on its own
formatVars == <<byteCount, formatted>>

\* the analysis page without its downloads
pageVars == <<dataMaxSize, fileInput, queryText, errorDisplay, errorText,
              resultsDisplay, overlayDisplay, currentResults, currentStep,
              stepInterval, timers, stepClass, requests, submitted,
              domVars, tabVars, previewVars>>

vars == <<pageVars, downloads, reactVars, formatVars>>

---------------------------------------------------------------------------
(* Bounds of the model *)

\* requests issued in one behaviour
MaxSubmissions == 2

\* number of .step elements of the progress display
NumSteps == 2

\* layout passes of tab switches pending at once
MaxLayouts == 1

\* downloads exportResults makes
MaxDownloads == 2

\* calls of trigger in the admin panel
MaxCalls == 2

\* requests the chat sends
MaxSends == 2

---------------------------------------------------------------------------
(* Strings *)

Rep(c, n) == [i \in 1..n |-> c]

IMAGE_SLASH == <<"i", "m", "a", "g", "e", "/">>
PNG == IMAGE_SLASH \o <<"p", "n", "g">>
JPEG == IMAGE_SLASH \o <<"j", "p", "e", "g">>
PDF == <<"a", "p", "p", "l", "i", "c", "a", "t", "i", "o", "n", "/", "p", "d", "f">>
IMAGE_NO_SLASH == <<"i", "m", "a", "g", "e">>

Whitespace == {" ", "\t", "\n"}

startsWith(s, prefix) ==
    /\ Len(s) >= Len(prefix)
    /\ SubSeq(s, 1, Len(prefix)) = prefix

RECURSIVE trimStart(_)
trimStart(s) ==
    IF s # <<>> /\ Head(s) \in Whitespace THEN trimStart(Tail(s)) ELSE s

RECURSIVE trimEnd(_)
trimEnd(s) ==
    IF s # <<>> /\ s[Len(s)] \in Whitespace
    THEN trimEnd(SubSeq(s, 1, Len(s) - 1))
    ELSE s

trim(s) == trimEnd(trimStart(s))

\* a || b on optional strings: a when it is present and not empty
OrElse(opt, dflt) == IF opt # <<>> /\ opt[1] # "" THEN opt[1] ELSE dflt

---------------------------------------------------------------------------
(* Inputs *)

MiB == 1024 * 1024

DefaultMaxSize == 10 * 1024 * 1024

File(size, type) == [size |-> size, type |-> type]

Files ==
    { File(DefaultMaxSize, PNG),          \* a valid image, exactly 10 MiB
      File(DefaultMaxSize + 1, PNG),      \* one byte over the default ceiling
      File(1 * MiB, PDF),                 \* not an image
      File(3 * 1024, <<>>),               \* no MIME type
      File(3 * 1024, IMAGE_NO_SLASH),     \* "image" without the slash
      File(15 * MiB, PDF) }               \* oversized and not an image

\* values of data-max-size after parseInt: the attribute is absent (NaN)
DataMaxSizes == { <<>> }

Queries ==
    { <<>>,                                         \* empty
      Rep(" ", 25),                                 \* blank
      Rep(" ", 2) \o Rep("x", 19) \o Rep(" ", 2),   \* 23 long, 19 trimmed
      Rep("x", 20) }                                \* exactly 20

\* bodies of a non-2xx response: response.json() rejects, or an object
ErrorBodies ==
    { [parsed |-> FALSE, detail |-> <<>>],
      [parsed |-> TRUE, detail |-> <<>>],
      [parsed |-> TRUE, detail |-> <<"">>],
      [parsed |-> TRUE, detail |-> <<"Image could not be processed">>] }

\* the optional fields of an analysis result, all absent
AbsentFields ==
    [analysis_summary |-> <<>>, context_sources |-> <<>>,
     topology_explanation |-> <<>>, modification_details |-> <<>>,
     recommendations |-> <<>>, original_topology |-> <<>>,
     modified_topology |-> <<>>, diagrams |-> <<>>]

\* bodies of a 2xx response; rid tells two results apart
Result(success, rid, error) ==
    [parsed |-> TRUE, success |-> success, rid |-> rid, error |-> error]
    @@ AbsentFields

OkBodies ==
    { [parsed |-> FALSE, success |-> FALSE, rid |-> 0, error |-> <<>>]
        @@ AbsentFields,
      Result(TRUE, 1, <<>>),
      Result(FALSE, 0, <<>>),
      Result(FALSE, 0, <<"">>),
      Result(FALSE, 0, <<"image unreadable">>) }

Steps == 1..NumSteps

\* a diagram description
GraphCode == <<"g", "r", "a", "p", "h", " ", "T", "D", ";", " ", "A", "-", "-", ">", "B">>

Diagrams(original, modified, comparison, png, svg) ==
    [original |-> original, modified |-> modified, comparison |-> comparison,
     proposed_png_url |-> png, proposed_svg_url |-> svg]

Device(id, vendor, model, type, reason) ==
    [id |-> id, vendor |-> vendor, model |-> model, type |-> type,
     replacement_reason |-> reason]

Topology(devices, structure) ==
    [devices |-> devices, topology_structure |-> structure]

\* every optional field populated; the comparison diagram is blank
FullResult ==
    [Result(TRUE, 3, <<>>) EXCEPT
       !.analysis_summary = <<"Core switch at end of life">>,
       !.context_sources = <<"<ul><li>Aruba CX 8360 datasheet</li></ul>">>,
       !.topology_explanation = <<"Two-tier campus network">>,
       !.modification_details =
           <<[total_replacements |-> <<1>>, implementation_phases |-> <<"2">>,
              risk_level |-> <<"Low">>, cost_category |-> <<>>]>>,
       !.recommendations =
           <<[replacements |->
                << << [original_device |->
                         <<[vendor |-> <<"Cisco">>, model |-> <<>>,
                            features |-> <<>>, justification |-> <<>>,
                            cost_benefit |-> <<>>]>>,
                       recommended_device |->
                         <<[vendor |-> <<"Aruba">>, model |-> <<"CX 8360">>,
                            features |-> << <<"VSX", "25G">> >>,
                            justification |-> <<"Higher throughput">>,
                            cost_benefit |-> <<>>]>>] >> >>]>>,
       !.original_topology =
           <<Topology(<< <<Device(<<"sw1">>, <<"Cisco">>, <<"3850">>,
                                  <<"switch">>, <<>>)>> >>, <<"two-tier">>)>>,
       !.modified_topology =
           <<Topology(<< <<Device(<<"sw1">>, <<"Aruba">>, <<"CX 8360">>,
                                  <<"switch">>, <<"end of life">>)>> >>, <<>>)>>,
       !.diagrams = <<Diagrams(<<GraphCode>>, <<GraphCode>>, << <<" ", "\n", " ">> >>,
                               <<"/static/proposed.png">>,
                               <<"/static/proposed.svg">>)>>]

\* {success: true, recommendations: {replacements: []}}
EmptyRecommendationsResult ==
    [Result(TRUE, 4, <<>>) EXCEPT
       !.recommendations = <<[replacements |-> << <<>> >>]>>]

\* topologies without devices, one diagram, one of the two URLs
SparseResult ==
    [Result(TRUE, 5, <<>>) EXCEPT
       !.recommendations = <<[replacements |-> <<>>]>>,
       !.original_topology = <<Topology(<<>>, <<>>)>>,
       !.modified_topology = <<Topology(<< <<>> >>, <<>>)>>,
       !.diagrams = <<Diagrams(<<>>, <<GraphCode>>, << <<>> >>,
                               <<"/static/proposed.png">>, <<>>)>>]

\* bodies of the 2xx responses of the rendering specification
RenderBodies ==
    { Result(TRUE, 1, <<>>), FullResult, EmptyRecommendationsResult,
      SparseResult, Result(FALSE, 0, <<"image unreadable">>) }

---------------------------------------------------------------------------
(* Utility functions *)

RECURSIVE unitIndex(_)
\* Math.floor(Math.log(bytes) / Math.log(1024)) for bytes >= 1
unitIndex(bytes) == IF bytes < 1024 THEN 0 ELSE 1 + unitIndex(bytes \div 1024)

RECURSIVE pow(_, _)
pow(k, i) == IF i = 0 THEN 1 ELSE k * pow(k, i - 1)

sizes == <<"Bytes", "KB", "MB", "GB">>

\* parseFloat(x.toFixed(2)) printed: x in hundredths, trailing zeros dropped
printHundredths(h) ==
    LET whole == h \div 100
        frac == h % 100
    IN IF frac = 0 THEN ToString(whole)
       ELSE IF frac % 10 = 0 THEN ToString(whole) \o "." \o ToString(frac \div 10)
       ELSE IF frac < 10 THEN ToString(whole) \o ".0" \o ToString(frac)
       ELSE ToString(whole) \o "." \o ToString(frac)

\* the size divided by powers of 1000
formatFileSize_decimal(bytes) ==
    IF bytes = 0 THEN "0 Bytes"
    ELSE LET i == unitIndex(bytes)
             p == pow(1000, i)
             q == bytes \div p
             r == bytes % p
         IN printHundredths(q * 100 + (r * 100 + p \div 2) \div p) \o " "
            \o (IF i + 1 <= Len(sizes) THEN sizes[i + 1] ELSE "undefined")

\* sizes[i]: undefined (<<>>) when i is past the end of the array
unitOf(i) == IF i + 1 <= Len(sizes) THEN <<sizes[i + 1]>> ELSE <<>>

\* the two parts of what formatFileSize returns for m * 1024^e bytes, a
\* product the integers of the model cannot hold when e is large:
\* i = floor(log(bytes) / log(1024)) is unitIndex(m) + e, and
\* bytes / 1024^i is m / 1024^unitIndex(m)
formatParts(m, e) ==
    IF m = 0 THEN [number |-> "0", unit |-> <<"Bytes">>]
    ELSE LET j == unitIndex(m)
             p == pow(1024, j)
             q == m \div p
             r == m % p
         IN [number |-> printHundredths(q * 100 + (r * 100 + p \div 2) \div p),
             unit |-> unitOf(j + e)]

\* the parts joined as the template does: an undefined unit prints as
\* "undefined"
formatText(parts) ==
    parts.number \o " " \o (IF parts.unit = <<>> THEN "undefined" ELSE parts.unit[1])

formatFileSize(bytes) == formatText(formatParts(bytes, 0))

---------------------------------------------------------------------------
(* Messages *)

FileTooLargeMsg(maxSize) ==
    "File size too large. Please select an image smaller than "
    \o formatFileSize(maxSize) \o "."
InvalidFileTypeMsg == "Please select a valid image file."
MissingImageMsg == "Please select a network topology image"
MissingQueryMsg == "Please enter replacement requirements"
QueryTooShortMsg ==
    "Please provide more detailed replacement requirements (at least 20 characters)"
AnalysisFailedMsg == "Analysis failed"
FailedPrefix == "Failed to analyze topology: "
HttpErrorMsg(status) == "HTTP error! status: " \o ToString(status)
\* error.message of the TypeError a failed fetch() rejects with
FetchFailedMsg == "Failed to fetch"
\* error.message of the SyntaxError response.json() rejects with
JsonSyntaxMsg == "Unexpected token < in JSON at position 0"

---------------------------------------------------------------------------
(* Error banner, results region, loading overlay *)

showError(message) ==
    /\ errorDisplay' = "block"
    /\ errorText' = message

hideError ==
    /\ errorDisplay' = "none"
    /\ UNCHANGED errorText

hideResults == resultsDisplay' = "none"

showLoadingOverlay == overlayDisplay' = "flex"

hideLoadingOverlay == overlayDisplay' = "none"

---------------------------------------------------------------------------
(* Progress animator *)

\* updateProgressStep with currentStep = step (indices from 0 in the code)
updateProgressStep(step) ==
    stepClass' = [i \in Steps |->
                    IF i - 1 = step THEN {"active"}
                    ELSE IF i - 1 < step THEN {"completed"}
                    ELSE {}]

\* the animation started without resetting currentStep
startProgressAnimation_noReset(h) ==
    /\ UNCHANGED currentStep
    /\ updateProgressStep(currentStep)
    /\ timers' = timers \cup {h}
    /\ stepInterval' = <<h>>

\* h: the handle setInterval returns
startProgressAnimation(h) ==
    /\ currentStep' = 0
    /\ updateProgressStep(0)
    /\ timers' = timers \cup {h}
    /\ stepInterval' = <<h>>

stopProgressAnimation ==
    /\ IF stepInterval # <<>>
       THEN /\ timers' = timers \ {stepInterval[1]}
            /\ stepInterval' = <<>>
       ELSE UNCHANGED <<timers, stepInterval>>
    /\ stepClass' = [i \in Steps |-> (stepClass[i] \ {"active"}) \cup {"completed"}]
    /\ UNCHANGED currentStep

\* the callback advancing without the test against steps.length - 1
Tick_unguarded(h) ==
    /\ UNCHANGED <<downloads, reactVars, formatVars>>
    /\ UNCHANGED <<domVars, tabVars, previewVars>>
    /\ h \in timers
    /\ currentStep' = currentStep + 1
    /\ updateProgressStep(currentStep + 1)
    /\ UNCHANGED <<dataMaxSize, fileInput, queryText, errorDisplay, errorText,
                   resultsDisplay, overlayDisplay, currentResults,
                   stepInterval, timers, requests, submitted>>

\* the callback hiding the error banner as it advances
Tick_hidesError(h) ==
    /\ UNCHANGED <<downloads, reactVars, formatVars>>
    /\ UNCHANGED <<domVars, tabVars, previewVars>>
    /\ h \in timers
    /\ IF currentStep < NumSteps - 1
       THEN /\ currentStep' = currentStep + 1
            /\ updateProgressStep(currentStep + 1)
       ELSE UNCHANGED <<currentStep, stepClass>>
    /\ hideError
    /\ UNCHANGED <<dataMaxSize, fileInput, queryText,
                   resultsDisplay, overlayDisplay, currentResults,
                   stepInterval, timers, requests, submitted>>

\* the setInterval callback of timer h
Tick(h) ==
    /\ UNCHANGED <<downloads, reactVars, formatVars>>
    /\ UNCHANGED <<domVars, tabVars, previewVars>>
    /\ h \in timers
    /\ IF currentStep < NumSteps - 1
       THEN /\ currentStep' = currentStep + 1
            /\ updateProgressStep(currentStep + 1)
       ELSE UNCHANGED <<currentStep, stepClass>>
    /\ UNCHANGED <<dataMaxSize, fileInput, queryText, errorDisplay, errorText,
                   resultsDisplay, overlayDisplay, currentResults,
                   stepInterval, timers, requests, submitted>>

---------------------------------------------------------------------------
(* Result decomposer: the content each section is given.  The content of  *)
(* an element is the sequence of the texts of the elements written into   *)
(* it, in document order.                                                  *)

\* a JavaScript value used as a condition: an optional string
truthy(opt) == opt # <<>> /\ opt[1] # ""

\* a.join(sep)
RECURSIVE join(_, _)
join(a, sep) ==
    IF a = <<>> THEN ""
    ELSE IF Len(a) = 1 THEN a[1]
    ELSE a[1] \o sep \o join(Tail(a), sep)

\* the concatenation of the sequences f[1], ..., f[n]
RECURSIVE flatten(_)
flatten(f) == IF f = <<>> THEN <<>> ELSE Head(f) \o flatten(Tail(f))

NoSummaryMsg == "No analysis summary available"
NoExplanationMsg == "No topology explanation available"
NoRecommendationsDataMsg == "No recommendations data received."
NoReplacementsMsg == "No specific replacement recommendations generated."
NoDiagramMsg == "No diagram data available"

\* results.analysis_summary || 'No analysis summary available'
summaryContent(results) == <<OrElse(results.analysis_summary, NoSummaryMsg)>>

\* results.topology_explanation || 'No topology explanation available'
explanationContent(results) ==
    <<OrElse(results.topology_explanation, NoExplanationMsg)>>

\* the container is written only when results.context_sources is truthy
contextSourcesContent(results, old) ==
    IF truthy(results.context_sources)
    THEN <<results.context_sources[1]>>
    ELSE old

\* modificationDetails.total_replacements || 0
totalReplacements(md) ==
    IF md.total_replacements # <<>> /\ md.total_replacements[1] # 0
    THEN ToString(md.total_replacements[1])
    ELSE "0"

displayModificationOverview(md) ==
    << "Total Replacements", totalReplacements(md),
       "Implementation Phases", OrElse(md.implementation_phases, "TBD"),
       "Risk Level", OrElse(md.risk_level, "Medium"),
       "Cost Category", OrElse(md.cost_category, "Not specified") >>

\* the container is written only when results.modification_details is set
overviewContent(results, old) ==
    IF results.modification_details # <<>>
    THEN displayModificationOverview(results.modification_details[1])
    ELSE old

\* replacement.original_device || {}: the fields of the object, each optional
NoDevice == [vendor |-> <<>>, model |-> <<>>, features |-> <<>>,
             justification |-> <<>>, cost_benefit |-> <<>>]

deviceOf(opt) == IF opt # <<>> THEN opt[1] ELSE NoDevice

\* Object.keys(device).length > 0
hasKeys(device) == \E k \in DOMAIN device : device[k] # <<>>

vendorModel(device) ==
    OrElse(device.vendor, "Unknown") \o " " \o OrElse(device.model, "Unknown")

\* the elements written for one replacement; index counts from 0
replacementContent(replacement, index) ==
    LET original == deviceOf(replacement.original_device)
        recommended == deviceOf(replacement.recommended_device)
    IN <<"Replacement " \o ToString(index + 1)>>
       \o (IF hasKeys(original)
           THEN <<"Original Device: " \o vendorModel(original)>>
           ELSE <<>>)
       \o (IF hasKeys(recommended)
           THEN <<"Recommended Device: " \o vendorModel(recommended)>>
                \o (IF recommended.features # <<>>
                       /\ Len(recommended.features[1]) > 0
                    THEN <<"Features: " \o join(recommended.features[1], ", ")>>
                    ELSE <<>>)
                \o (IF truthy(recommended.justification)
                    THEN <<"Justification: " \o recommended.justification[1]>>
                    ELSE <<>>)
                \o (IF truthy(recommended.cost_benefit)
                    THEN <<"Cost/Benefit: " \o recommended.cost_benefit[1]>>
                    ELSE <<>>)
           ELSE <<>>)

\* the replacements list shown although it is empty
displayRecommendations_noEmptyCase(recommendations) ==
    IF recommendations = <<>> \/ recommendations[1].replacements = <<>>
    THEN <<NoRecommendationsDataMsg>>
    ELSE LET replacements == recommendations[1].replacements[1]
         IN <<"Device Replacement Recommendations ("
                \o ToString(Len(replacements)) \o " items)">>
            \o flatten([i \in 1..Len(replacements) |->
                          replacementContent(replacements[i], i - 1)])

displayRecommendations(recommendations) ==
    IF recommendations = <<>> \/ recommendations[1].replacements = <<>>
    THEN <<NoRecommendationsDataMsg>>
    ELSE LET replacements == recommendations[1].replacements[1]
         IN IF Len(replacements) = 0
            THEN <<NoReplacementsMsg>>
            ELSE <<"Device Replacement Recommendations ("
                     \o ToString(Len(replacements)) \o " items)">>
                 \o flatten([i \in 1..Len(replacements) |->
                               replacementContent(replacements[i], i - 1)])

\* topology.devices || []
devicesOf(topology) ==
    IF topology.devices # <<>> THEN topology.devices[1] ELSE <<>>

TotalDevicesMsg(n) == "Total Devices: " \o ToString(n)

originalDeviceLine(device) ==
    OrElse(device.id, "Unknown") \o ": " \o OrElse(device.vendor, "Unknown")
    \o " " \o OrElse(device.model, "Unknown")
    \o " (" \o OrElse(device.type, "Unknown") \o ")"

\* the replaced devices carry a glyph and their replacement reason
modifiedDeviceLine(device) ==
    (IF truthy(device.replacement_reason) THEN "(replaced) " ELSE "")
    \o OrElse(device.id, "Unknown") \o ": " \o OrElse(device.vendor, "Unknown")
    \o " " \o OrElse(device.model, "Unknown")
    \o (IF truthy(device.replacement_reason)
        THEN " - " \o device.replacement_reason[1]
        ELSE "")

\* the first half of displayTopologyDetails
originalDetailsContent(originalTopology, old) ==
    IF originalTopology # <<>>
    THEN LET devices == devicesOf(originalTopology[1])
         IN <<"Current Infrastructure Analysis", TotalDevicesMsg(Len(devices))>>
            \o (IF truthy(originalTopology[1].topology_structure)
                THEN <<"Architecture: " \o originalTopology[1].topology_structure[1]>>
                ELSE <<>>)
            \o (IF Len(devices) > 0
                THEN <<"Device Inventory:">>
                     \o [i \in 1..Len(devices) |-> originalDeviceLine(devices[i])]
                ELSE <<>>)
    ELSE old

\* the second half of displayTopologyDetails
modifiedDetailsContent(modifiedTopology, old) ==
    IF modifiedTopology # <<>>
    THEN LET devices == devicesOf(modifiedTopology[1])
         IN <<"Proposed Infrastructure Changes", TotalDevicesMsg(Len(devices))>>
            \o (IF Len(devices) > 0
                THEN <<"Updated Device List:">>
                     \o [i \in 1..Len(devices) |-> modifiedDeviceLine(devices[i])]
                ELSE <<>>)
    ELSE old

---------------------------------------------------------------------------
(* File selection *)

\* parseInt(event.target.dataset.maxSize) || (10 * 1024 * 1024)
maxSizeOf(ds) == IF ds = <<>> \/ ds[1] = 0 THEN DefaultMaxSize ELSE ds[1]

\* the sizes compared in whole megabytes
fileTooLarge_inMegabytes(file, maxSize) == file.size \div MiB > maxSize \div MiB

fileTooLarge(file, maxSize) == file.size > maxSize

\* the prefix tested without its slash
invalidFileType_noSlash(file) == ~startsWith(file.type, IMAGE_NO_SLASH)

\* !file.type || !file.type.startsWith('image/')
invalidFileType(file) == file.type = <<>> \/ ~startsWith(file.type, IMAGE_SLASH)

\* the rejected selection left in the input
clearFileInput_omitted(sel) == fileInput' = sel

\* event.target.value = '': the input, which held sel, holds no file
clearFileInput(sel) == fileInput' = <<>>

\* reader.readAsDataURL(file): the read is started, onload fires later
readAsDataURL(file) ==
    /\ reads' = reads \cup {file}
    /\ UNCHANGED filePreview

\* the preview left as it is
clearPreview_kept == UNCHANGED filePreview

\* filePreview.innerHTML = ''
clearPreview == filePreview' = <<>>

\* the type validated before the size
handleFileSelect_typeFirst(sel) ==
    /\ UNCHANGED <<downloads, reactVars, formatVars>>
    /\ UNCHANGED <<requests, queryText, currentStep, submitted, resultsDisplay,
                   overlayDisplay, stepInterval, timers, stepClass,
                   currentResults, dataMaxSize>>
    /\ UNCHANGED <<tabVars, domVars>>
    /\ IF sel # <<>>
       THEN LET file == sel[1]
                maxSize == maxSizeOf(dataMaxSize)
            IN IF invalidFileType(file)
               THEN /\ clearFileInput(sel)
                    /\ showError(InvalidFileTypeMsg)
                    /\ UNCHANGED previewVars
               ELSE IF fileTooLarge(file, maxSize)
               THEN /\ clearFileInput(sel)
                    /\ showError(FileTooLargeMsg(maxSize))
                    /\ UNCHANGED previewVars
               ELSE /\ fileInput' = sel
                    /\ readAsDataURL(file)
                    /\ UNCHANGED <<errorDisplay, errorText>>
       ELSE /\ fileInput' = <<>>
            /\ clearPreview
            /\ UNCHANGED <<errorDisplay, errorText, reads>>

\* the change event of the file input; sel is the FileList the user chose
handleFileSelect(sel) ==
    /\ UNCHANGED <<downloads, reactVars, formatVars>>
    /\ UNCHANGED <<requests, queryText, currentStep, submitted, resultsDisplay,
                   overlayDisplay, stepInterval, timers, stepClass,
                   currentResults, dataMaxSize>>
    /\ UNCHANGED <<tabVars, domVars>>
    /\ IF sel # <<>>
       THEN LET file == sel[1]
                maxSize == maxSizeOf(dataMaxSize)
            IN IF fileTooLarge(file, maxSize)
               THEN /\ clearFileInput(sel)
                    /\ showError(FileTooLargeMsg(maxSize))
                    /\ UNCHANGED previewVars
               ELSE IF invalidFileType(file)
               THEN /\ clearFileInput(sel)
                    /\ showError(InvalidFileTypeMsg)
                    /\ UNCHANGED previewVars
               ELSE /\ fileInput' = sel
                    /\ readAsDataURL(file)
                    /\ UNCHANGED <<errorDisplay, errorText>>
       ELSE /\ fileInput' = <<>>
            /\ clearPreview
            /\ UNCHANGED <<errorDisplay, errorText, reads>>

\* the user edits the requirements text area
EditQuery(q) ==
    /\ UNCHANGED <<downloads, reactVars, formatVars>>
    /\ UNCHANGED <<domVars, tabVars, previewVars>>
    /\ q # queryText
    /\ queryText' = q
    /\ UNCHANGED <<dataMaxSize, fileInput, errorDisplay, errorText,
                   resultsDisplay, overlayDisplay, currentResults, currentStep,
                   stepInterval, timers, stepClass, requests, submitted>>


\* reader.onload of the read of file f: the preview shows the image with the
\* file's name, size and type
ReaderLoads(f) ==
    /\ UNCHANGED <<downloads, reactVars, formatVars>>
    /\ f \in reads
    /\ reads' = reads \ {f}
    /\ filePreview' = <<f>>
    /\ UNCHANGED <<dataMaxSize, fileInput, queryText, errorDisplay, errorText,
                   resultsDisplay, overlayDisplay, currentResults, currentStep,
                   stepInterval, timers, stepClass, requests, submitted,
                   domVars, tabVars>>

---------------------------------------------------------------------------
(* Diagram renderer *)

\* the diagram containers, in the order displayResults fills them
SlotIds == <<"original-diagram", "modified-diagram", "comparison-diagram">>

Slots == 1..3

\* content of a diagram container
EmptyDiagram == [kind |-> "empty", code |-> <<>>, message |-> ""]
NoDiagram == [kind |-> "no-diagram", code |-> <<>>, message |-> NoDiagramMsg]
DiagramText(code) == [kind |-> "text", code |-> code, message |-> ""]
DiagramError(message) ==
    [kind |-> "diagram-error", code |-> <<>>,
     message |-> "Error rendering diagram: " \o message]

\* error.message of a failed mermaid.run()
LayoutErrorMsg == "Parse error on line 1"

\* results.diagrams?.original, ?.modified, ?.comparison
diagramCode(results, slot) ==
    IF results.diagrams = <<>> THEN <<>>
    ELSE IF slot = 1 THEN results.diagrams[1].original
    ELSE IF slot = 2 THEN results.diagrams[1].modified
    ELSE results.diagrams[1].comparison

\* the description tested without trimming it
noDiagramData_untrimmed(diagramCode_) ==
    diagramCode_ = <<>> \/ diagramCode_[1] = <<>>

\* !diagramCode || diagramCode.trim() === ''
noDiagramData(diagramCode_) ==
    diagramCode_ = <<>> \/ diagramCode_[1] = <<>> \/ trim(diagramCode_[1]) = <<>>

\* the first slot from `from` on whose updateDiagram reaches mermaid.run();
\* 0 when every remaining updateDiagram returns at the placeholder
RECURSIVE firstRun(_, _)
firstRun(results, from) ==
    IF from > 3 THEN 0
    ELSE IF noDiagramData(diagramCode(results, from))
    THEN firstRun(results, from + 1)
    ELSE from

\* the containers after the updateDiagram calls of slots from .. stop, the
\* last of them suspended at mermaid.run() (all remaining ones when stop = 0)
updateDiagrams(base, results, from, stop) ==
    [k \in Slots |->
        IF k >= from /\ (stop = 0 \/ k < stop) THEN NoDiagram
        ELSE IF k = stop THEN DiagramText(diagramCode(results, k)[1])
        ELSE base[k]]

\* what a mermaid.run() that resolves has done: every container holding a
\* description holds the diagram laid out from it
laidOut(ds) ==
    [k \in Slots |-> IF ds[k].kind = "text" THEN [ds[k] EXCEPT !.kind = "svg"]
                     ELSE ds[k]]

\* results.diagrams?.proposed_png_url
proposedPngUrl(results) ==
    IF results.diagrams = <<>> THEN <<>> ELSE results.diagrams[1].proposed_png_url

\* results.diagrams?.proposed_svg_url
proposedSvgUrl(results) ==
    IF results.diagrams = <<>> THEN <<>> ELSE results.diagrams[1].proposed_svg_url

\* the links shown as soon as one of the URLs is there
updateDownloadLinks_either(results) ==
    IF truthy(proposedPngUrl(results)) \/ truthy(proposedSvgUrl(results))
    THEN downloadLinks' = [png |-> "inline-block", svg |-> "inline-block",
                           pngHref |-> proposedPngUrl(results),
                           svgHref |-> proposedSvgUrl(results)]
    ELSE downloadLinks' = [downloadLinks EXCEPT !.png = "none", !.svg = "none"]

\* the download links of the proposed topology
updateDownloadLinks(results) ==
    IF truthy(proposedPngUrl(results)) /\ truthy(proposedSvgUrl(results))
    THEN downloadLinks' = [png |-> "inline-block", svg |-> "inline-block",
                           pngHref |-> proposedPngUrl(results),
                           svgHref |-> proposedSvgUrl(results)]
    ELSE downloadLinks' = [downloadLinks EXCEPT !.png = "none", !.svg = "none"]

---------------------------------------------------------------------------
(* Submission controller *)

\* pc: the await the invocation is suspended at; slot and results: the
\* diagram slot and the result of a displayResults awaiting mermaid.run()
Request(id, image, query) ==
    [id |-> id, image |-> image, query |-> query, pc |-> "fetch", status |-> 0,
     slot |-> 0, results |-> <<>>]

\* !queryText.trim()
queryMissing(q) == trim(q) = <<>>

\* the length taken without trimming
queryTooShort_untrimmed(q) == Len(q) < 20

\* queryText.trim().length < 20
queryTooShort(q) == Len(trim(q)) < 20

\* the loading state entered before the form is validated
handleFormSubmit_hidesResults ==
    /\ UNCHANGED <<downloads, reactVars, formatVars>>
    /\ UNCHANGED <<domVars, tabVars, previewVars>>
    /\ UNCHANGED <<dataMaxSize, fileInput, queryText, currentResults>>
    /\ hideResults
    /\ IF fileInput = <<>>
       THEN /\ showError(MissingImageMsg)
            /\ UNCHANGED <<overlayDisplay, currentStep,
                           stepInterval, timers, stepClass, requests, submitted>>
       ELSE IF queryMissing(queryText)
       THEN /\ showError(MissingQueryMsg)
            /\ UNCHANGED <<overlayDisplay, currentStep,
                           stepInterval, timers, stepClass, requests, submitted>>
       ELSE IF queryTooShort(queryText)
       THEN /\ showError(QueryTooShortMsg)
            /\ UNCHANGED <<overlayDisplay, currentStep,
                           stepInterval, timers, stepClass, requests, submitted>>
       ELSE /\ submitted < MaxSubmissions
            /\ showLoadingOverlay
            /\ hideError
            /\ startProgressAnimation(submitted + 1)
            /\ requests' = requests \cup
                             {Request(submitted + 1, fileInput[1], queryText)}
            /\ submitted' = submitted + 1

\* the submit event of the form, up to the first await
handleFormSubmit ==
    /\ UNCHANGED <<downloads, reactVars, formatVars>>
    /\ UNCHANGED <<domVars, tabVars, previewVars>>
    /\ UNCHANGED <<dataMaxSize, fileInput, queryText, currentResults>>
    /\ IF fileInput = <<>>
       THEN /\ showError(MissingImageMsg)
            /\ UNCHANGED <<resultsDisplay, overlayDisplay, currentStep,
                           stepInterval, timers, stepClass, requests, submitted>>
       ELSE IF queryMissing(queryText)
       THEN /\ showError(MissingQueryMsg)
            /\ UNCHANGED <<resultsDisplay, overlayDisplay, currentStep,
                           stepInterval, timers, stepClass, requests, submitted>>
       ELSE IF queryTooShort(queryText)
       THEN /\ showError(QueryTooShortMsg)
            /\ UNCHANGED <<resultsDisplay, overlayDisplay, currentStep,
                           stepInterval, timers, stepClass, requests, submitted>>
       ELSE /\ submitted < MaxSubmissions
            /\ showLoadingOverlay
            /\ hideError
            /\ hideResults
            /\ startProgressAnimation(submitted + 1)
            /\ requests' = requests \cup
                             {Request(submitted + 1, fileInput[1], queryText)}
            /\ submitted' = submitted + 1

\* the finally block
finally ==
    /\ hideLoadingOverlay
    /\ stopProgressAnimation

\* await fetch(...) rejects: a network failure
FetchRejects(r) ==
    /\ UNCHANGED <<downloads, reactVars, formatVars>>
    /\ UNCHANGED <<domVars, tabVars, previewVars>>
    /\ r \in requests
    /\ r.pc = "fetch"
    /\ showError(FailedPrefix \o FetchFailedMsg)
    /\ finally
    /\ requests' = requests \ {r}
    /\ UNCHANGED <<dataMaxSize, fileInput, queryText, resultsDisplay,
                   currentResults, submitted>>

\* await fetch(...) resolves with a response; its body is read next
FetchResponds(r, status) ==
    /\ UNCHANGED <<downloads, reactVars, formatVars>>
    /\ UNCHANGED <<domVars, tabVars, previewVars>>
    /\ r \in requests
    /\ r.pc = "fetch"
    /\ requests' = (requests \ {r}) \cup {[r EXCEPT !.pc = "json", !.status = status]}
    /\ UNCHANGED <<dataMaxSize, fileInput, queryText, errorDisplay, errorText,
                   resultsDisplay, overlayDisplay, currentResults, currentStep,
                   stepInterval, timers, stepClass, submitted>>

responseOk(status) == status >= 200 /\ status <= 299

\* a field the server does not send read instead of detail
errorDetail_wrongField(body) == <<>>

\* (await response.json().catch(() => ({}))).detail
errorDetail(body) == IF body.parsed THEN body.detail ELSE <<>>

\* await response.json() settles for a non-2xx response
HttpErrorSettles(r, body) ==
    /\ UNCHANGED <<downloads, reactVars, formatVars>>
    /\ UNCHANGED <<domVars, tabVars, previewVars>>
    /\ r \in requests
    /\ r.pc = "json"
    /\ ~responseOk(r.status)
    /\ showError(FailedPrefix \o OrElse(errorDetail(body), HttpErrorMsg(r.status)))
    /\ finally
    /\ requests' = requests \ {r}
    /\ UNCHANGED <<dataMaxSize, fileInput, queryText, resultsDisplay,
                   currentResults, submitted>>

\* the sections displayResults writes before the diagrams
displaySections(results) ==
    sections' =
      [summary |-> summaryContent(results),
       contextSources |-> contextSourcesContent(results, sections.contextSources),
       explanation |-> explanationContent(results),
       overview |-> overviewContent(results, sections.overview),
       recommendations |-> displayRecommendations(results.recommendations),
       originalDetails |->
           originalDetailsContent(results.original_topology, sections.originalDetails),
       modifiedDetails |->
           modifiedDetailsContent(results.modified_topology, sections.modifiedDetails)]

\* displayResults from the updateDiagram call of slot `from` on, the
\* containers being `base`: up to the next await mermaid.run(), or to its
\* end, the return into handleFormSubmit and the finally block
continueDisplay(r, results, from, base) ==
    LET stop == firstRun(results, from)
    IN /\ diagrams' = updateDiagrams(base, results, from, stop)
       /\ IF stop = 0
          THEN /\ updateDownloadLinks(results)
               /\ resultsDisplay' = "block"
               /\ finally
               /\ requests' = requests \ {r}
          ELSE /\ requests' = (requests \ {r}) \cup
                     {[r EXCEPT !.pc = "mermaid", !.slot = stop,
                                !.results = <<results>>]}
               /\ UNCHANGED <<downloadLinks, resultsDisplay, overlayDisplay,
                              currentStep, stepInterval, timers, stepClass>>

\* displayResults(results), called for request r
displayResults(r, results) ==
    /\ displaySections(results)
    /\ continueDisplay(r, results, 1, diagrams)

\* the result of a request that is not the latest one left aside
JsonSettles_latestOnly(r, body) ==
    /\ UNCHANGED <<downloads, reactVars, formatVars>>
    /\ r \in requests
    /\ r.pc = "json"
    /\ responseOk(r.status)
    /\ UNCHANGED <<dataMaxSize, fileInput, queryText, submitted, tabVars,
                   previewVars>>
    /\ IF ~body.parsed
       THEN /\ showError(FailedPrefix \o JsonSyntaxMsg)
            /\ UNCHANGED <<currentResults, resultsDisplay, domVars>>
            /\ finally
            /\ requests' = requests \ {r}
       ELSE IF body.success /\ r.id = submitted
       THEN /\ currentResults' = <<body>>
            /\ displayResults(r, body)
            /\ UNCHANGED <<errorDisplay, errorText>>
       ELSE IF body.success
       THEN /\ UNCHANGED <<currentResults, resultsDisplay, domVars,
                           errorDisplay, errorText>>
            /\ finally
            /\ requests' = requests \ {r}
       ELSE /\ showError(OrElse(body.error, AnalysisFailedMsg))
            /\ UNCHANGED <<currentResults, resultsDisplay, domVars>>
            /\ finally
            /\ requests' = requests \ {r}

\* await response.json() settles for a 2xx response
JsonSettles(r, body) ==
    /\ UNCHANGED <<downloads, reactVars, formatVars>>
    /\ r \in requests
    /\ r.pc = "json"
    /\ responseOk(r.status)
    /\ UNCHANGED <<dataMaxSize, fileInput, queryText, submitted, tabVars,
                   previewVars>>
    /\ IF ~body.parsed
       THEN /\ showError(FailedPrefix \o JsonSyntaxMsg)
            /\ UNCHANGED <<currentResults, resultsDisplay, domVars>>
            /\ finally
            /\ requests' = requests \ {r}
       ELSE IF body.success
       THEN /\ currentResults' = <<body>>
            /\ displayResults(r, body)
            /\ UNCHANGED <<errorDisplay, errorText>>
       ELSE /\ showError(OrElse(body.error, AnalysisFailedMsg))
            /\ UNCHANGED <<currentResults, resultsDisplay, domVars>>
            /\ finally
            /\ requests' = requests \ {r}

\* await mermaid.run() resolves in the updateDiagram of request r
MermaidResolves(r) ==
    /\ UNCHANGED <<downloads, reactVars, formatVars>>
    /\ r \in requests
    /\ r.pc = "mermaid"
    /\ continueDisplay(r, r.results[1], r.slot + 1, laidOut(diagrams))
    /\ UNCHANGED <<dataMaxSize, fileInput, queryText, errorDisplay, errorText,
                   currentResults, submitted, sections, tabVars, previewVars>>

\* the rejection not caught in updateDiagram: it reaches the catch block of
\* displayResults
MermaidRejects_uncaught(r) ==
    /\ UNCHANGED <<downloads, reactVars, formatVars>>
    /\ r \in requests
    /\ r.pc = "mermaid"
    /\ showError("Error displaying analysis results")
    /\ finally
    /\ requests' = requests \ {r}
    /\ UNCHANGED <<dataMaxSize, fileInput, queryText, resultsDisplay,
                   currentResults, submitted, domVars, tabVars, previewVars>>

\* await mermaid.run() rejects in the updateDiagram of request r
MermaidRejects(r) ==
    /\ UNCHANGED <<downloads, reactVars, formatVars>>
    /\ r \in requests
    /\ r.pc = "mermaid"
    /\ continueDisplay(r, r.results[1], r.slot + 1,
                       [diagrams EXCEPT ![r.slot] = DiagramError(LayoutErrorMsg)])
    /\ UNCHANGED <<dataMaxSize, fileInput, queryText, errorDisplay, errorText,
                   currentResults, submitted, sections, tabVars, previewVars>>

---------------------------------------------------------------------------
(* Tab navigator *)

\* the tabs of the results region: a pane <name>-tab and a button each
TabNames == {"original", "modified", "comparison"}

\* the classes of the other panes and buttons left as they are
showTab_additive(tabName, target) ==
    /\ activePanes' = activePanes \cup ({tabName} \cap TabNames)
    /\ activeButtons' = activeButtons \cup
                          (IF target # <<>> THEN {target[1]} \cap TabNames ELSE {})
    /\ layoutTimers' = layoutTimers + 1
    /\ UNCHANGED layoutRuns

\* showTab(tabName) during an event whose target is the element `target`
\* (<<>>: no current event)
showTab(tabName, target) ==
    /\ activePanes' = {tabName} \cap TabNames
    /\ activeButtons' = IF target # <<>> THEN {target[1]} \cap TabNames ELSE {}
    /\ layoutTimers' = layoutTimers + 1
    /\ UNCHANGED layoutRuns

\* a click on the button of tab t, whose onclick calls showTab(t)
ClickTab(t) ==
    /\ UNCHANGED <<downloads, reactVars, formatVars>>
    /\ layoutTimers + layoutRuns < MaxLayouts
    /\ showTab(t, <<t>>)
    /\ UNCHANGED <<dataMaxSize, fileInput, queryText, errorDisplay, errorText,
                   resultsDisplay, overlayDisplay, currentResults, currentStep,
                   stepInterval, timers, stepClass, requests, submitted,
                   domVars, previewVars>>

\* the setTimeout callback of showTab, up to its await mermaid.run()
LayoutTimeout ==
    /\ UNCHANGED <<downloads, reactVars, formatVars>>
    /\ layoutTimers > 0
    /\ layoutTimers' = layoutTimers - 1
    /\ layoutRuns' = layoutRuns + 1
    /\ UNCHANGED <<dataMaxSize, fileInput, queryText, errorDisplay, errorText,
                   resultsDisplay, overlayDisplay, currentResults, currentStep,
                   stepInterval, timers, stepClass, requests, submitted,
                   domVars, activePanes, activeButtons, previewVars>>

\* a rejection shown in the error banner
LayoutSettles_shown(resolved) ==
    /\ UNCHANGED <<downloads, reactVars, formatVars>>
    /\ layoutRuns > 0
    /\ layoutRuns' = layoutRuns - 1
    /\ diagrams' = IF resolved THEN laidOut(diagrams) ELSE diagrams
    /\ IF resolved THEN UNCHANGED <<errorDisplay, errorText>>
       ELSE showError("Error re-rendering mermaid")
    /\ UNCHANGED <<dataMaxSize, fileInput, queryText,
                   resultsDisplay, overlayDisplay, currentResults, currentStep,
                   stepInterval, timers, stepClass, requests, submitted,
                   sections, downloadLinks, activePanes, activeButtons,
                   layoutTimers, previewVars>>

\* that mermaid.run() settles; a rejection is logged to the console
LayoutSettles(resolved) ==
    /\ UNCHANGED <<downloads, reactVars, formatVars>>
    /\ layoutRuns > 0
    /\ layoutRuns' = layoutRuns - 1
    /\ diagrams' = IF resolved THEN laidOut(diagrams) ELSE diagrams
    /\ UNCHANGED <<dataMaxSize, fileInput, queryText, errorDisplay, errorText,
                   resultsDisplay, overlayDisplay, currentResults, currentStep,
                   stepInterval, timers, stepClass, requests, submitted,
                   sections, downloadLinks, activePanes, activeButtons,
                   layoutTimers, previewVars>>

---------------------------------------------------------------------------
(* Global functions of the page *)

\* window.hideError: the banner's dismiss button
DismissError ==
    /\ UNCHANGED <<downloads, reactVars, formatVars>>
    /\ UNCHANGED <<domVars, tabVars, previewVars>>
    /\ hideError
    /\ UNCHANGED <<dataMaxSize, fileInput, queryText, resultsDisplay,
                   overlayDisplay, currentResults, currentStep, stepInterval,
                   timers, stepClass, requests, submitted>>

\* the stored result dropped with the form
startNewAnalysis_dropsResults ==
    /\ UNCHANGED <<downloads, reactVars, formatVars>>
    /\ UNCHANGED <<domVars, tabVars, reads>>
    /\ fileInput' = <<>>
    /\ queryText' = <<>>
    /\ clearPreview
    /\ hideResults
    /\ hideError
    /\ currentResults' = <<>>
    /\ UNCHANGED <<dataMaxSize, overlayDisplay, currentStep,
                   stepInterval, timers, stepClass, requests, submitted>>

\* window.startNewAnalysis; form.reset() empties the file input and the text
startNewAnalysis ==
    /\ UNCHANGED <<downloads, reactVars, formatVars>>
    /\ UNCHANGED <<domVars, tabVars, reads>>
    /\ fileInput' = <<>>
    /\ queryText' = <<>>
    /\ clearPreview
    /\ hideResults
    /\ hideError
    /\ UNCHANGED <<dataMaxSize, overlayDisplay, currentResults, currentStep,
                   stepInterval, timers, stepClass, requests, submitted>>

---------------------------------------------------------------------------
(* Export *)

\* JSON.stringify(value, null, 2) of a stored result, as the members its text
\* spells: success and rid always, an optional member when it is present
stringify(value) ==
    LET present == {k \in DOMAIN AbsentFields \cup {"error"} : value[k] # <<>>}
    IN [k \in {"success", "rid"} \cup present |-> value[k]]

\* the file link.click() makes the browser download
Download(text) ==
    [download |-> "topology-analysis-results.json", type |-> "application/json",
     text |-> text]

\* a download made whatever currentResults holds
exportResults_always ==
    /\ UNCHANGED <<pageVars, reactVars, formatVars>>
    /\ Len(downloads) < MaxDownloads
    /\ downloads' = Append(downloads,
                           Download(IF currentResults = <<>> THEN <<>>
                                    ELSE stringify(currentResults[1])))

\* window.exportResults
exportResults ==
    /\ UNCHANGED <<pageVars, reactVars, formatVars>>
    /\ IF currentResults # <<>>
       THEN /\ Len(downloads) < MaxDownloads
            /\ downloads' = Append(downloads, Download(stringify(currentResults[1])))
       ELSE UNCHANGED downloads

---------------------------------------------------------------------------
(* Admin control panel *)

REST_ENDPOINT == "/admin"

\* the endpoints of two of the five buttons
Endpoints == {"/reset", "/clear-cache"}

\* values of new Date().toLocaleTimeString()
Times == {"10:15:07 AM", "10:15:08 AM"}

\* what await res.json() gives: a rejection, an object without a message,
\* an object with one
AdminBodies ==
    { [parsed |-> FALSE, message |-> <<>>],
      [parsed |-> TRUE, message |-> <<>>],
      [parsed |-> TRUE, message |-> <<"Cache cleared">>] }

\* `[${new Date().toLocaleTimeString()}] ${msg}`
Entry(time, msg) == "[" \o time \o "] " \o msg

\* the log set to the new entry alone
logMessage_replace(msg, time) == log' = <<Entry(time, msg)>>

\* setLog((prev) => [...prev, entry])
logMessage(msg, time) == log' = Append(log, Entry(time, msg))

\* an invocation of trigger suspended at an await
Call(id, endpoint) == [id |-> id, endpoint |-> endpoint, pc |-> "fetch"]

\* trigger(endpoint), up to the await of fetch
trigger(endpoint, time) ==
    /\ UNCHANGED <<pageVars, downloads, chatVars, formatVars>>
    /\ triggered < MaxCalls
    /\ logMessage("Calling " \o REST_ENDPOINT \o endpoint \o "...", time)
    /\ calls' = calls \cup {Call(triggered + 1, endpoint)}
    /\ triggered' = triggered + 1

\* await fetch(...) rejects: the catch block
TriggerFetchRejects(c, time) ==
    /\ UNCHANGED <<pageVars, downloads, chatVars, formatVars>>
    /\ c \in calls
    /\ c.pc = "fetch"
    /\ logMessage("Error on " \o c.endpoint \o ": TypeError: " \o FetchFailedMsg, time)
    /\ calls' = calls \ {c}
    /\ UNCHANGED triggered

\* await fetch(...) resolves, whatever the status; res.json() is awaited next
TriggerFetchResolves(c) ==
    /\ UNCHANGED <<pageVars, downloads, chatVars, formatVars>>
    /\ c \in calls
    /\ c.pc = "fetch"
    /\ calls' = (calls \ {c}) \cup {[c EXCEPT !.pc = "json"]}
    /\ UNCHANGED <<log, triggered>>

\* await res.json() settles
TriggerJsonSettles(c, data, time) ==
    /\ UNCHANGED <<pageVars, downloads, chatVars, formatVars>>
    /\ c \in calls
    /\ c.pc = "json"
    /\ IF data.parsed
       THEN logMessage(OrElse(data.message, "Success."), time)
       ELSE logMessage("Error on " \o c.endpoint \o ": SyntaxError: " \o JsonSyntaxMsg,
                       time)
    /\ calls' = calls \ {c}
    /\ UNCHANGED triggered

---------------------------------------------------------------------------
(* Chat interface.  A text is the sequence of its pieces: single           *)
(* characters where the code inspects it, the whole text otherwise.  The   *)
(* id and the timestamp of a message are left out.                         *)

Message(text, sender) == [text |-> text, sender |-> sender]

InitialMessages ==
    <<Message(<<"Hello! I'm your Aruba Networks AI assistant.">>, "ai")>>

ChatErrorText == "Sorry, there was an error contacting the backend API."

\* what the user types: nothing, blanks, a word, a word between blanks
ChatInputs == {<<>>, <<" ", " ">>, <<"h", "i">>, <<" ", "h", "i", " ">>}

\* what await response.json() gives: a rejection, an answer in response, an
\* answer in result beside an empty response, an object with neither
ChatBodies ==
    { [parsed |-> FALSE, response |-> <<>>, result |-> <<>>],
      [parsed |-> TRUE, response |-> <<"Use VLAN 20">>, result |-> <<>>],
      [parsed |-> TRUE, response |-> <<"">>, result |-> <<"42">>],
      [parsed |-> TRUE, response |-> <<>>, result |-> <<>>] }

\* data.response || data.result || JSON.stringify(data)
aiText(data) ==
    LET member(k, opt) == IF opt = <<>> THEN <<>>
                          ELSE <<"\"" \o k \o "\":\"" \o opt[1] \o "\"">>
        members == member("response", data.response) \o member("result", data.result)
    IN OrElse(data.response, OrElse(data.result, "{" \o join(members, ",") \o "}"))

\* onChange of the Input, which is disabled while isLoading
setInputText(value) ==
    /\ UNCHANGED <<pageVars, downloads, adminVars, formatVars>>
    /\ ~isLoading
    /\ value # inputText
    /\ inputText' = value
    /\ UNCHANGED <<messages, isLoading, asking, sent>>

\* the user message appended twice
handleSendMessage_twice ==
    IF trim(inputText) = <<>>
    THEN UNCHANGED chatVars
    ELSE /\ sent < MaxSends
         /\ isLoading' = TRUE
         /\ messages' = messages \o <<Message(inputText, "user"),
                                      Message(inputText, "user")>>
         /\ inputText' = <<>>
         /\ asking' = asking \cup {[id |-> sent + 1, pc |-> "fetch"]}
         /\ sent' = sent + 1

\* handleSendMessage, up to the await of fetch
handleSendMessage ==
    IF trim(inputText) = <<>>
    THEN UNCHANGED chatVars
    ELSE /\ sent < MaxSends
         /\ isLoading' = TRUE
         /\ messages' = Append(messages, Message(inputText, "user"))
         /\ inputText' = <<>>
         /\ asking' = asking \cup {[id |-> sent + 1, pc |-> "fetch"]}
         /\ sent' = sent + 1

\* Enter pressed in the Input, which is disabled while isLoading
handleKeyPress ==
    /\ UNCHANGED <<pageVars, downloads, adminVars, formatVars>>
    /\ ~isLoading
    /\ handleSendMessage

\* the catch block and the finally block
chatFailed(a) ==
    /\ messages' = Append(messages, Message(<<ChatErrorText>>, "ai"))
    /\ isLoading' = FALSE
    /\ asking' = asking \ {a}

\* await fetch(...) rejects
ChatFetchRejects(a) ==
    /\ UNCHANGED <<pageVars, downloads, adminVars, formatVars>>
    /\ a \in asking
    /\ a.pc = "fetch"
    /\ chatFailed(a)
    /\ UNCHANGED <<inputText, sent>>

\* await fetch(...) resolves: !response.ok throws, else the body is awaited
ChatFetchResponds(a, ok) ==
    /\ UNCHANGED <<pageVars, downloads, adminVars, formatVars>>
    /\ a \in asking
    /\ a.pc = "fetch"
    /\ IF ok
       THEN /\ asking' = (asking \ {a}) \cup {[a EXCEPT !.pc = "json"]}
            /\ UNCHANGED <<messages, isLoading>>
       ELSE chatFailed(a)
    /\ UNCHANGED <<inputText, sent>>

\* await response.json() settles
ChatJsonSettles(a, data) ==
    /\ UNCHANGED <<pageVars, downloads, adminVars, formatVars>>
    /\ a \in asking
    /\ a.pc = "json"
    /\ IF data.parsed
       THEN /\ messages' = Append(messages, Message(<<aiText(data)>>, "ai"))
            /\ isLoading' = FALSE
            /\ asking' = asking \ {a}
       ELSE chatFailed(a)
    /\ UNCHANGED <<inputText, sent>>

---------------------------------------------------------------------------
(* A call of formatFileSize *)

\* byte counts m * 1024^e on both sides of every unit and past the last one
ByteCounts ==
    {[m |-> m, e |-> e] :
       m \in {0, 1, 512, 1023, 1024, 1025, 1536, 10240, 1048575, 1048576,
              10485760, 15728640},
       e \in 0..4}

\* the call returns
formatFileSizeReturns ==
    /\ UNCHANGED <<pageVars, downloads, reactVars, byteCount>>
    /\ formatted = <<>>
    /\ formatted' = <<formatParts(byteCount.m, byteCount.e)>>

---------------------------------------------------------------------------
(* Specification *)

Statuses == {200, 500}

\* the pages as loaded
Loaded ==
    /\ dataMaxSize \in DataMaxSizes
    /\ fileInput = <<>>
    /\ queryText = <<>>
    /\ errorDisplay = "none"
    /\ errorText = ""
    /\ resultsDisplay = "none"
    /\ overlayDisplay = "none"
    /\ currentResults = <<>>
    /\ currentStep = 0
    /\ stepInterval = <<>>
    /\ timers = {}
    /\ stepClass = [i \in Steps |-> {}]
    /\ requests = {}
    /\ submitted = 0
    /\ sections = [summary |-> <<>>, contextSources |-> <<>>,
                   explanation |-> <<>>, overview |-> <<>>,
                   recommendations |-> <<>>, originalDetails |-> <<>>,
                   modifiedDetails |-> <<>>]
    /\ diagrams = [k \in Slots |-> EmptyDiagram]
    /\ downloadLinks = [png |-> "none", svg |-> "none",
                        pngHref |-> <<>>, svgHref |-> <<>>]
    /\ activePanes = {"original"}
    /\ activeButtons = {"original"}
    /\ layoutTimers = 0
    /\ layoutRuns = 0
    /\ filePreview = <<>>
    /\ reads = {}
    /\ downloads = <<>>
    /\ log = <<>>
    /\ calls = {}
    /\ triggered = 0
    /\ messages = InitialMessages
    /\ inputText = <<>>
    /\ isLoading = FALSE
    /\ asking = {}
    /\ sent = 0
    /\ formatted = <<>>

Init == Loaded /\ byteCount = [m |-> 0, e |-> 0]

Next ==
    \/ \E sel \in {<<>>} \cup {<<f>> : f \in Files} : handleFileSelect(sel)
    \/ \E q \in Queries : EditQuery(q)
    \/ handleFormSubmit
    \/ \E r \in requests : FetchRejects(r)
    \/ \E r \in requests, status \in Statuses : FetchResponds(r, status)
    \/ \E r \in requests, body \in ErrorBodies : HttpErrorSettles(r, body)
    \/ \E r \in requests, body \in OkBodies : JsonSettles(r, body)
    \/ \E h \in timers : Tick(h)
    \/ DismissError
    \/ startNewAnalysis

Spec == Init /\ [][Next]_vars

\* the page with a valid form, served results of every shape, the tabs used
NextResults ==
    \/ handleFileSelect(<<File(DefaultMaxSize, PNG)>>)
    \/ EditQuery(Rep("x", 20))
    \/ handleFormSubmit
    \/ \E r \in requests : FetchResponds(r, 200)
    \/ \E r \in requests, body \in RenderBodies : JsonSettles(r, body)
    \/ \E r \in requests : MermaidResolves(r)
    \/ \E r \in requests : MermaidRejects(r)
    \/ \E t \in TabNames : ClickTab(t)
    \/ LayoutTimeout
    \/ \E resolved \in BOOLEAN : LayoutSettles(resolved)

SpecResults == Init /\ [][NextResults]_vars

\* the images selected while the preview is watched
PreviewFiles == {File(DefaultMaxSize, PNG), File(2 * 1024, JPEG)}

\* Scenario A's image of 15 MB
OversizedImage == File(15 * MiB, PNG)

\* the page with its preview: two images and an oversized one selected, the
\* selection removed, the reads completing at any time, plain results
NextPreview ==
    \/ \E sel \in {<<>>, <<OversizedImage>>} \cup {<<f>> : f \in PreviewFiles} :
          handleFileSelect(sel)
    \/ \E f \in reads : ReaderLoads(f)
    \/ EditQuery(Rep("x", 20))
    \/ handleFormSubmit
    \/ \E r \in requests : FetchResponds(r, 200)
    \/ \E r \in requests : JsonSettles(r, Result(TRUE, 1, <<>>))
    \/ startNewAnalysis

SpecPreview == Init /\ [][NextPreview]_vars

\* the form alone: every file and query tried, the requests failing on the
\* network
NextForm ==
    \/ \E sel \in {<<>>} \cup {<<f>> : f \in Files} : handleFileSelect(sel)
    \/ \E q \in Queries : EditQuery(q)
    \/ handleFormSubmit
    \/ \E r \in requests : FetchRejects(r)
    \/ startNewAnalysis

SpecForm == Init /\ [][NextForm]_vars

\* the results a served page may export
ExportBodies == {Result(TRUE, 1, <<>>), Result(TRUE, 2, <<>>), Result(FALSE, 0, <<>>)}

\* the page with a valid form, two results told apart and a failure, the
\* export button pressed at any time
NextExport ==
    \/ handleFileSelect(<<File(DefaultMaxSize, PNG)>>)
    \/ EditQuery(Rep("x", 20))
    \/ handleFormSubmit
    \/ \E r \in requests : FetchResponds(r, 200)
    \/ \E r \in requests, body \in ExportBodies : JsonSettles(r, body)
    \/ exportResults
    \/ startNewAnalysis

SpecExport == Init /\ [][NextExport]_vars

\* the admin control panel
NextAdmin ==
    \/ \E endpoint \in Endpoints, time \in Times : trigger(endpoint, time)
    \/ \E c \in calls, time \in Times : TriggerFetchRejects(c, time)
    \/ \E c \in calls : TriggerFetchResolves(c)
    \/ \E c \in calls, data \in AdminBodies, time \in Times :
          TriggerJsonSettles(c, data, time)

SpecAdmin == Init /\ [][NextAdmin]_vars

\* the chat interface
NextChat ==
    \/ \E value \in ChatInputs : setInputText(value)
    \/ handleKeyPress
    \/ \E a \in asking : ChatFetchRejects(a)
    \/ \E a \in asking, ok \in BOOLEAN : ChatFetchResponds(a, ok)
    \/ \E a \in asking, data \in ChatBodies : ChatJsonSettles(a, data)

SpecChat == Init /\ [][NextChat]_vars

\* formatFileSize called with each byte count
InitFormat == Loaded /\ byteCount \in ByteCounts

SpecFormat == InitFormat /\ [][formatFileSizeReturns]_vars

---------------------------------------------------------------------------
(* Properties *)

\* the ceiling in force: data-max-size when it is set, else 10 MiB
Ceiling == IF dataMaxSize = <<>> THEN 10 * 1024 * 1024 ELSE dataMaxSize[1]

IsImageType(type) == Len(type) >= 6 /\ SubSeq(type, 1, 6) = <<"i", "m", "a", "g", "e", "/">>

Selections == {<<f>> : f \in Files}

\* C1: at most one analysis submission is in flight at any time: a submit
\* event while a request has not settled issues no second request.
C1_OneSubmissionInFlight == Cardinality(requests) <= 1

\* C2: the error banner and the results region are never visible at the
\* same time.
C2_ErrorExcludesResults == ~(errorDisplay = "block" /\ resultsDisplay = "block")

\* C3: selecting a file larger than the ceiling fails with the
\* file-too-large error and empties the selection, and no request in flight
\* ever carries a file larger than the ceiling.
C3_OversizedNeverSent ==
    [][/\ \A sel \in Selections :
            sel[1].size > Ceiling =>
              (handleFileSelect(sel)
               => /\ errorDisplay' = "block"
                  /\ errorText' = FileTooLargeMsg(Ceiling)
                  /\ fileInput' = <<>>)
       /\ \A r \in requests' : r.image.size <= Ceiling]_vars

\* a file over the ceiling was rejected while a request is in flight
C3_Witness ==
    /\ errorDisplay = "block"
    /\ errorText = FileTooLargeMsg(Ceiling)
    /\ fileInput = <<>>
    /\ requests # {}

\* C4 as stated: selecting a file whose MIME type is empty or does not
\* start with 'image/' fails with the invalid-file-type error and empties
\* the selection.
C4_AsStated ==
    [][\A sel \in Selections :
          ~IsImageType(sel[1].type) =>
            (handleFileSelect(sel)
             => /\ errorDisplay' = "block"
                /\ errorText' = InvalidFileTypeMsg
                /\ fileInput' = <<>>)]_vars

\* C4 amended: selecting a file whose MIME type is empty or does not start
\* with 'image/' is rejected (the banner is shown, the selection emptied):
\* with the invalid-file-type error when its size is within the ceiling,
\* with the file-too-large error when it is over; no request in flight
\* carries a file of such a type.
C4_NonImageRejected ==
    [][/\ \A sel \in Selections :
            ~IsImageType(sel[1].type) =>
              (handleFileSelect(sel)
               => /\ errorDisplay' = "block"
                  /\ errorText' = IF sel[1].size > Ceiling
                                  THEN FileTooLargeMsg(Ceiling)
                                  ELSE InvalidFileTypeMsg
                  /\ fileInput' = <<>>)
       /\ \A r \in requests' : IsImageType(r.image.type)]_vars

\* a file that is not an image was rejected for its type while a request
\* is in flight
C4_Witness ==
    /\ errorDisplay = "block"
    /\ errorText = InvalidFileTypeMsg
    /\ fileInput = <<>>
    /\ requests # {}

\* C5 as stated: a submit with an image present and a query of trimmed
\* length below 20 (0 included) fails with the 'at least 20 characters'
\* error and issues no request.
C5_AsStated ==
    [][fileInput # <<>> /\ Len(trim(queryText)) < 20 /\ handleFormSubmit
       => /\ errorDisplay' = "block"
          /\ errorText' = QueryTooShortMsg
          /\ requests' = requests]_vars

\* C5 amended: a submit with an image present and a query of trimmed length
\* below 20 issues no request and shows an error: the 'at least 20
\* characters' error for a trimmed length of 1 to 19, the 'Please enter
\* replacement requirements' error for a trimmed length of 0.
C5_ShortQueryRejected ==
    [][fileInput # <<>> /\ Len(trim(queryText)) < 20 /\ handleFormSubmit
       => /\ errorDisplay' = "block"
          /\ errorText' = IF Len(trim(queryText)) = 0
                          THEN MissingQueryMsg
                          ELSE QueryTooShortMsg
          /\ requests' = requests
          /\ submitted' = submitted]_vars

\* a submit was rejected for a query of 19 characters between blanks
C5_Witness ==
    /\ errorDisplay = "block"
    /\ errorText = QueryTooShortMsg
    /\ fileInput # <<>>
    /\ Len(queryText) >= 20
    /\ Len(trim(queryText)) = 19
    /\ requests = {}

\* C6: every request sent carries an image whose MIME type starts with
\* 'image/' and whose size is at most the ceiling, and a query of trimmed
\* length at least 20.
C6_RequestInvariant ==
    \A r \in requests :
        /\ IsImageType(r.image.type)
        /\ r.image.size <= Ceiling
        /\ Len(trim(r.query)) >= 20

\* two requests are in flight, each with an image of exactly the ceiling
C6_Witness ==
    /\ Cardinality(requests) = 2
    /\ \A r \in requests : r.image.size = Ceiling

C8_SuccessProcessed ==
    [][\A r \in requests, body \in OkBodies :
          body.parsed /\ body.success /\ JsonSettles(r, body)
          => /\ currentResults' = <<body>>
             /\ resultsDisplay' = "block"
             /\ overlayDisplay' = "none"
             /\ stepInterval' = <<>>
             /\ timers' = {}
             /\ \A i \in Steps : stepClass'[i] = {"completed"}]_vars

\* C9: when a 2xx response with success = false has been processed, the
\* banner shows the server's error text (the generic 'Analysis failed' when
\* there is none), the results region is hidden and currentResults is not
\* that response.
C9_ApplicationError ==
    [][\A r \in requests, body \in OkBodies :
          body.parsed /\ ~body.success /\ JsonSettles(r, body)
          => /\ errorDisplay' = "block"
             /\ errorText' = IF body.error \in {<<>>, <<"">>}
                             THEN "Analysis failed"
                             ELSE body.error[1]
             /\ resultsDisplay' = "none"
             /\ currentResults' # <<body>>]_vars

C11_CompletedAfterSettle ==
    requests = {} /\ submitted > 0
    => \A i \in Steps : stepClass[i] = {"completed"}

\* the last step of the progress display (indices from 0)
LastStep == IF NumSteps - 1 > 0 THEN NumSteps - 1 ELSE 0

\* C12: currentStep stays within 0 .. max(0, totalSteps - 1); a timer tick
\* advances it by one or not at all, and a tick at the last step changes
\* neither currentStep nor the classes of the steps.
C12_NoOvershoot ==
    [][/\ currentStep \in 0..LastStep
       /\ currentStep' \in 0..LastStep
       /\ \A h \in timers :
            Tick(h) => /\ currentStep' \in {currentStep, currentStep + 1}
                       /\ currentStep = LastStep
                          => /\ currentStep' = currentStep
                             /\ stepClass' = stepClass]_vars

\* the animation has reached the last step, its timer still scheduled and
\* the request still in flight
C12_Witness ==
    /\ currentStep = LastStep
    /\ stepInterval # <<>>
    /\ stepInterval[1] \in timers
    /\ requests # {}
    /\ stepClass[NumSteps] = {"active"}

C14_LayoutOnlyWithResult ==
    (layoutRuns > 0 \/ \E r \in requests : r.pc = "mermaid")
    => currentResults # <<>>

\* a description that is absent, empty or made of white space only
Blank(description) ==
    description = <<>>
    \/ \A i \in 1..Len(description[1]) : description[1][i] \in Whitespace

\* the slots whose updateDiagram is called before displayResults suspends
\* or ends, when it goes on from slot `from`
CalledFrom(results, from) ==
    {k \in Slots : k >= from
                   /\ \A j \in from..(k - 1) : Blank(diagramCode(results, j))}

\* what displayResults goes on with for request r, and from which slot
Continues(r, results, from) ==
    IF from = 1 THEN results.parsed /\ results.success /\ JsonSettles(r, results)
    ELSE MermaidResolves(r) \/ MermaidRejects(r)

\* the results displayResults may be at work on for request r in a step,
\* each with the slot it goes on from
Displaying(r) ==
    IF r.pc = "json" THEN {<<b, 1>> : b \in RenderBodies}
    ELSE IF r.pc = "mermaid" THEN {<<r.results[1], r.slot + 1>>}
    ELSE {}

\* the blank descriptions displayResults comes to get the placeholder
BlankGetPlaceholder(r, results, from) ==
    Continues(r, results, from)
    => \A k \in CalledFrom(results, from) :
          Blank(diagramCode(results, k)) => diagrams'[k] = NoDiagram

\* C15: an updateDiagram call whose description is absent, empty or white
\* space only puts the 'No diagram data available' placeholder into its
\* container and does not invoke the layout engine: no mermaid.run() of an
\* updateDiagram is ever pending for such a description.
C15_BlankDiagram ==
    [][/\ \A r \in requests :
            r \notin requests'
            => \A d \in Displaying(r) : BlankGetPlaceholder(r, d[1], d[2])
       /\ \A q \in requests' :
            q.pc = "mermaid" => ~Blank(diagramCode(q.results[1], q.slot))]_vars

\* a result with a blank comparison description is displayed: the two other
\* diagrams laid out, the placeholder in the third container
C15_Witness ==
    /\ requests = {}
    /\ currentResults = <<FullResult>>
    /\ diagrams[1].kind = "svg"
    /\ diagrams[2].kind = "svg"
    /\ diagrams[3] = NoDiagram
    /\ resultsDisplay = "block"

\* C16: a failure of the layout engine in one slot's updateDiagram puts the
\* inline error into that slot's container only; the later slots are still
\* rendered, the banner and currentResults are left as they were, and when
\* displayResults ends the results region is shown.
C16_RenderErrorContained ==
    [][\A r \in requests :
          r.pc = "mermaid" /\ MermaidRejects(r)
          => /\ diagrams'[r.slot].kind = "diagram-error"
             /\ diagrams'[r.slot].message
                  = "Error rendering diagram: Parse error on line 1"
             /\ \A k \in Slots : k < r.slot => diagrams'[k] = diagrams[k]
             /\ \A k \in Slots :
                  k > r.slot /\ k \in CalledFrom(r.results[1], r.slot + 1)
                  => diagrams'[k].kind \in {"no-diagram", "text"}
             /\ errorDisplay' = errorDisplay
             /\ errorText' = errorText
             /\ currentResults' = currentResults
             /\ currentResults # <<>>
             /\ \/ /\ requests' = requests \ {r}
                   /\ resultsDisplay' = "block"
                   /\ overlayDisplay' = "none"
                \/ \E q \in requests' :
                      q.id = r.id /\ q.pc = "mermaid" /\ q.slot > r.slot]_vars

\* the first diagram failed, the second was laid out, the results are shown
\* and the banner is not
C16_Witness ==
    /\ requests = {}
    /\ diagrams[1].kind = "diagram-error"
    /\ diagrams[2].kind = "svg"
    /\ diagrams[3] = NoDiagram
    /\ resultsDisplay = "block"
    /\ errorDisplay = "none"
    /\ currentResults = <<FullResult>>

\* a URL that is there
HasUrl(url) == url # <<>> /\ url[1] # ""

\* the display of results ends in this step
Ends(r, results, from) ==
    /\ Continues(r, results, from)
    /\ \A q \in requests' : q.id # r.id

\* when the display of a result ends, the links follow its two URLs
LinksFollowUrls(r, results, from) ==
    Ends(r, results, from)
    => LET hasPng == results.diagrams # <<>>
                     /\ HasUrl(results.diagrams[1].proposed_png_url)
           hasSvg == results.diagrams # <<>>
                     /\ HasUrl(results.diagrams[1].proposed_svg_url)
       IN IF hasPng /\ hasSvg
          THEN /\ downloadLinks'.png = "inline-block"
               /\ downloadLinks'.svg = "inline-block"
               /\ downloadLinks'.pngHref = results.diagrams[1].proposed_png_url
               /\ downloadLinks'.svgHref = results.diagrams[1].proposed_svg_url
          ELSE /\ downloadLinks'.png = "none"
               /\ downloadLinks'.svg = "none"

\* C17: when a successful result has been displayed, both download links
\* are shown (with the result's URLs) if the result has both
\* proposed_png_url and proposed_svg_url, and both are hidden if either is
\* missing.
C17_DownloadLinks ==
    [][\A r \in requests :
          r \notin requests'
          => \A d \in Displaying(r) : LinksFollowUrls(r, d[1], d[2])]_vars

\* the links, shown for an earlier result, are hidden for a result that has
\* only the PNG URL
C17_Witness ==
    /\ requests = {}
    /\ currentResults = <<SparseResult>>
    /\ resultsDisplay = "block"
    /\ downloadLinks.png = "none"
    /\ downloadLinks.svg = "none"
    /\ downloadLinks.svgHref # <<>>

\* the successful results among the bodies served
SuccessBodies == {b \in RenderBodies : b.parsed /\ b.success}

\* what the sections without a placeholder of their own show of a result's
\* data
DataContents ==
    UNION {{contextSourcesContent(b, <<>>), overviewContent(b, <<>>),
            originalDetailsContent(b.original_topology, <<>>),
            modifiedDetailsContent(b.modified_topology, <<>>)} : b \in SuccessBodies}

\* an explicit placeholder: not blank, and not the data of a result
IsPlaceholder(content) == content # <<>> /\ content \notin DataContents

\* C18: when a successful response with every optional field absent has
\* been processed, every section shows an explicit placeholder: the
\* summary, the context sources, the explanation, the modification
\* overview, the recommendations, both device inventories and the three
\* diagrams; none is blank and none shows data.
C18_AllPlaceholders ==
    [][\A r \in requests :
          JsonSettles(r, Result(TRUE, 1, <<>>))
          => /\ sections'.summary = <<"No analysis summary available">>
             /\ sections'.explanation = <<"No topology explanation available">>
             /\ sections'.recommendations = <<"No recommendations data received.">>
             /\ \A k \in Slots : diagrams'[k].message = "No diagram data available"
             /\ IsPlaceholder(sections'.contextSources)
             /\ IsPlaceholder(sections'.overview)
             /\ IsPlaceholder(sections'.originalDetails)
             /\ IsPlaceholder(sections'.modifiedDetails)]_vars

\* recommendations?.replacements of a result: <<>> when absent, else <<list>>
Replacements(results) ==
    IF results.recommendations = <<>> THEN <<>>
    ELSE results.recommendations[1].replacements

\* C19: when a successful response whose recommendations.replacements is
\* absent or an empty list has been processed, the recommendations section
\* shows one explicit message: 'No specific replacement recommendations
\* generated.' for the empty list, 'No recommendations data received.' when
\* it is absent; never an empty container or a list without items.
C19_NoRecommendations ==
    [][\A r \in requests, b \in SuccessBodies :
          JsonSettles(r, b)
          => /\ Replacements(b) = <<>>
                => sections'.recommendations = <<"No recommendations data received.">>
             /\ Replacements(b) = << <<>> >>
                => sections'.recommendations
                     = <<"No specific replacement recommendations generated.">>]_vars

\* the response {success: true, recommendations: {replacements: []}} is
\* displayed after one with recommendations
C19_Witness ==
    /\ requests = {}
    /\ currentResults = <<EmptyRecommendationsResult>>
    /\ sections.recommendations = <<NoReplacementsMsg>>
    /\ sections.contextSources # <<>>
    /\ resultsDisplay = "block"

\* the element texts of a section include this one
Shows(content, text) == \E i \in 1..Len(content) : content[i] = text

\* a topology that is absent, or whose device list is absent or empty
NoDevices(topology) ==
    \/ topology = <<>>
    \/ topology[1].devices = <<>>
    \/ topology[1].devices[1] = <<>>

\* C20: when a successful response has been processed, each device
\* inventory whose topology has no devices (the topology absent as in
\* {success: true, recommendations: {replacements: []}}, its device list
\* absent or empty) shows 'Total Devices: 0'.
C20_ZeroDevices ==
    [][\A r \in requests, b \in SuccessBodies :
          JsonSettles(r, b)
          => /\ NoDevices(b.original_topology)
                => Shows(sections'.originalDetails, "Total Devices: 0")
             /\ NoDevices(b.modified_topology)
                => Shows(sections'.modifiedDetails, "Total Devices: 0")]_vars

\* C21: once shown, the error banner stays visible until it is dismissed:
\* a step that hides it is the banner's dismiss button (window.hideError),
\* startNewAnalysis, or a submit that passes validation; a timer tick or the
\* arrival of a response never hides it.
C21_BannerStays ==
    [][errorDisplay = "block" /\ errorDisplay' = "none"
       => \/ DismissError
          \/ startNewAnalysis
          \/ handleFormSubmit /\ submitted' = submitted + 1]_vars

\* the banner, shown for a rejected selection while a request is pending,
\* is still there after a timer tick and the response
C21_Witness ==
    /\ errorDisplay = "block"
    /\ errorText = InvalidFileTypeMsg
    /\ currentStep = 1
    /\ requests = {}
    /\ currentResults # <<>>
    /\ resultsDisplay = "block"

\* C22 as stated: the message for the 15 MB image under the default ceiling
\* names the limit as 9.54 MB.
C22_AsStated ==
    [][dataMaxSize = <<>> /\ handleFileSelect(<<OversizedImage>>)
       => errorText' = "File size too large. Please select an image smaller than 9.54 MB."]_vars

\* C22: selecting the 15 MB image with the default ceiling of 10*1024*1024
\* bytes is rejected with the file-too-large message, which names the limit
\* as formatFileSize prints it in base-1024 units: 10 MB.
C22_ScenarioA ==
    [][dataMaxSize = <<>> /\ handleFileSelect(<<OversizedImage>>)
       => /\ errorDisplay' = "block"
          /\ errorText' = "File size too large. Please select an image smaller than 10 MB."
          /\ fileInput' = <<>>]_vars

\* the 15 MB image was rejected while the read of an earlier image is pending
C22_Witness ==
    /\ errorDisplay = "block"
    /\ errorText = "File size too large. Please select an image smaller than 10 MB."
    /\ fileInput = <<>>
    /\ reads # {}

\* C23: the successful response of a superseded submission (one issued
\* before the latest) is not filtered: whenever it is processed it becomes
\* currentResults and the sections are written from it, also when the later
\* submission's response has been processed before.
C23_StaleNotFiltered ==
    [][\A r \in requests :
          r.id < submitted /\ r \notin requests'
          => \A body \in SuccessBodies :
                JsonSettles(r, body)
                => /\ currentResults' = <<body>>
                   /\ sections'.summary = summaryContent(body)
                   /\ sections'.explanation = explanationContent(body)
                   /\ sections'.recommendations
                        = displayRecommendations(body.recommendations)]_vars

\* two submissions overlapped; the second one's result, which has no
\* download links, has been displayed to the end; the first one's response
\* was processed after it and is what currentResults and the sections hold
C23_Witness ==
    /\ submitted = 2
    /\ \E r \in requests :
          /\ requests = {r}
          /\ r.id = 1
          /\ r.pc = "mermaid"
          /\ r.results = <<FullResult>>
    /\ currentResults = <<FullResult>>
    /\ sections.summary = summaryContent(FullResult)
    /\ sections.recommendations = displayRecommendations(FullResult.recommendations)
    /\ resultsDisplay = "block"
    /\ downloadLinks.png = "none"

\* the message of the first check an image fails, in the order present,
\* size, type; "" when it passes all three
imageFailure(image) ==
    IF image = <<>> THEN MissingImageMsg
    ELSE IF image[1].size > Ceiling THEN FileTooLargeMsg(Ceiling)
    ELSE IF ~IsImageType(image[1].type) THEN InvalidFileTypeMsg
    ELSE ""

\* the message of the first check a request fails, in the order image
\* present, size, type, query non-empty after trim, trimmed length >= 20
firstFailure(image, query) ==
    IF imageFailure(image) # "" THEN imageFailure(image)
    ELSE IF Len(trim(query)) = 0 THEN MissingQueryMsg
    ELSE IF Len(trim(query)) < 20 THEN QueryTooShortMsg
    ELSE ""

\* C24: validation reports the first failing check in the order image
\* present, size, type, query non-empty, query length: a selected file that
\* fails several checks is rejected with the message of the earliest one
\* (an oversized file that is not an image with file-too-large), and a
\* submit shows the message of the earliest check that the image held by
\* the input and the query fail (with no image held, a rejected one
\* included, the image message and never a query message) and issues a
\* request only when none fails.
C24_FirstFailingCheck ==
    [][/\ \A sel \in Selections :
            handleFileSelect(sel)
            => IF imageFailure(sel) # ""
               THEN /\ errorDisplay' = "block"
                    /\ errorText' = imageFailure(sel)
                    /\ fileInput' = <<>>
               ELSE /\ fileInput' = sel
                    /\ UNCHANGED <<errorDisplay, errorText>>
       /\ handleFormSubmit
          => IF firstFailure(fileInput, queryText) # ""
             THEN /\ errorDisplay' = "block"
                  /\ errorText' = firstFailure(fileInput, queryText)
                  /\ requests' = requests
             ELSE /\ errorDisplay' = "none"
                  /\ requests' # requests]_vars

\* while a request is pending the input holds no image and the query is too
\* short: a submit showed the missing-image message, not a query message
C24_Witness ==
    /\ errorDisplay = "block"
    /\ errorText = MissingImageMsg
    /\ fileInput = <<>>
    /\ Len(trim(queryText)) \in 1..19
    /\ requests # {}

\* what a tab switch must leave alone: the requests, currentResults, the
\* progress animation, the overlay, the banner and the results region
submissionVars ==
    <<requests, submitted, currentResults, currentStep, stepInterval, timers,
      stepClass, overlayDisplay, errorDisplay, errorText, resultsDisplay>>

\* C25: a tab activation is only a re-layout trigger: showTab issues no
\* request and leaves currentResults, the submission and progress state and
\* the visibility of the banner and of the results unchanged; it schedules
\* exactly one layout pass; the pass starts no request either, and when it
\* fails nothing that is shown changes.
C25_TabOnlyRelayout ==
    [][/\ \A t \in TabNames :
            ClickTab(t)
            => /\ UNCHANGED submissionVars
               /\ UNCHANGED <<sections, diagrams, downloadLinks>>
               /\ layoutTimers' = layoutTimers + 1
               /\ layoutRuns' = layoutRuns
       /\ LayoutTimeout
          => /\ UNCHANGED submissionVars
             /\ UNCHANGED <<sections, diagrams, downloadLinks,
                            activePanes, activeButtons>>
             /\ layoutTimers' = layoutTimers - 1
             /\ layoutRuns' = layoutRuns + 1
       /\ \A resolved \in BOOLEAN :
            LayoutSettles(resolved)
            => /\ UNCHANGED submissionVars
               /\ UNCHANGED <<sections, downloadLinks, activePanes,
                              activeButtons, layoutTimers>>
               /\ ~resolved => UNCHANGED diagrams]_vars

\* a tab was switched to while a diagram of a result awaits its layout; the
\* pass of the switch has settled and the description is still not laid out
C25_Witness ==
    /\ activePanes = {"comparison"}
    /\ layoutTimers = 0
    /\ layoutRuns = 0
    /\ errorDisplay = "none"
    /\ currentResults # <<>>
    /\ \E r \in requests : r.pc = "mermaid" /\ diagrams[r.slot].kind = "text"

\* C26: currentResults is written only by the success path of the
\* submission controller (a 2xx response whose body has success set), and
\* currentStep and stepInterval only by the progress animator: currentStep
\* by startProgressAnimation and the interval callback, stepInterval by
\* startProgressAnimation and stopProgressAnimation.  No other step (a file
\* selection, a dismissal, startNewAnalysis, a failed response; a timer
\* tick as far as currentResults and stepInterval go) changes them.
C26_Ownership ==
    [][/\ currentResults' # currentResults
          => \E r \in requests, body \in OkBodies \cup RenderBodies :
                body.parsed /\ body.success /\ JsonSettles(r, body)
       /\ currentStep' # currentStep
          => \/ startProgressAnimation(submitted + 1)
             \/ \E h \in timers : Tick(h)
       /\ stepInterval' # stepInterval
          => \/ startProgressAnimation(submitted + 1)
             \/ stopProgressAnimation]_vars

\* a result is still stored after startNewAnalysis has reset the form and
\* hidden the results, a timer having ticked during the submission
C26_Witness ==
    /\ currentResults # <<>>
    /\ currentStep = 1
    /\ resultsDisplay = "none"
    /\ errorDisplay = "none"
    /\ fileInput = <<>>
    /\ queryText = <<>>
    /\ requests = {}

\* C27: a change event with no file clears the preview; a pending file
\* read does not block a submit (a submit of a valid form issues its request
\* while reads are pending and leaves them pending), and the completion of
\* a read changes only the preview: the requests, currentResults, the
\* progress state, the overlay, the banner, the results and the form are
\* left as they were.
C27_PreviewIndependent ==
    [][/\ handleFileSelect(<<>>) => filePreview' = <<>>
       /\ reads # {} /\ firstFailure(fileInput, queryText) = "" /\ handleFormSubmit
          => /\ \E r \in requests' : r.id = submitted + 1 /\ r.pc = "fetch"
             /\ UNCHANGED <<reads, filePreview>>
       /\ \A f \in reads :
            ReaderLoads(f)
            => /\ filePreview' = <<f>>
               /\ UNCHANGED submissionVars
               /\ UNCHANGED <<sections, diagrams, downloadLinks,
                              fileInput, queryText>>]_vars

\* a submission was made and its result displayed while the reads of both
\* images were still pending
C27_Witness ==
    /\ reads = PreviewFiles
    /\ filePreview = <<>>
    /\ requests = {}
    /\ submitted = 1
    /\ currentResults # <<>>
    /\ resultsDisplay = "block"

\* the step in which the invocation of handleFormSubmit for request r ends
Leaves(r) == r \notin requests' /\ \A q \in requests' : q.id # r.id

\* C28: when a submission whose network call has settled leaves Submitting
\* (its handleFormSubmit ends), the loading overlay is hidden, the
\* submission's progress timer is no longer scheduled and no handle is
\* kept, and exactly one of the results region and the error banner is
\* visible.
C28_SettledOutcome ==
    [][\A r \in requests :
          Leaves(r)
          => /\ overlayDisplay' = "none"
             /\ stepInterval' = <<>>
             /\ r.id \notin timers'
             /\ (resultsDisplay' = "block") # (errorDisplay' = "block")]_vars

\* C29: the sections of the results region show content derived from the
\* most recent successful result only: context sources, modification
\* overview and the two device inventories are what that result alone
\* gives, never what an earlier result left there.
C29_NoStaleSections ==
    \A b \in SuccessBodies :
        currentResults = <<b>>
        => /\ sections.contextSources = contextSourcesContent(b, <<>>)
           /\ sections.overview = overviewContent(b, <<>>)
           /\ sections.originalDetails
                = originalDetailsContent(b.original_topology, <<>>)
           /\ sections.modifiedDetails
                = modifiedDetailsContent(b.modified_topology, <<>>)

\* C30: the loading overlay is visible exactly while a submission is in
\* flight: it is shown if and only if some issued request has not been fully
\* processed.
C30_OverlayWhileInFlight == (overlayDisplay = "flex") <=> (requests # {})

\* C31: at most one progress interval timer is scheduled at any time, and
\* when no issued submission is unsettled no interval timer is scheduled.
C31_OneTimer ==
    /\ Cardinality(timers) <= 1
    /\ requests = {} => timers = {}

\* C32: a submit that fails validation changes nothing except the error
\* banner: the overlay, the progress animation, the results region,
\* currentResults and the requests are left as they were, and so are the
\* form, the preview and the rendered sections.
C32_FailedSubmitFrame ==
    [][firstFailure(fileInput, queryText) # "" /\ handleFormSubmit
       => /\ errorDisplay' = "block"
          /\ errorText' = firstFailure(fileInput, queryText)
          /\ UNCHANGED <<overlayDisplay, currentStep, stepInterval, timers,
                         stepClass, resultsDisplay, currentResults, requests,
                         submitted>>
          /\ UNCHANGED <<dataMaxSize, fileInput, queryText, domVars, tabVars,
                         previewVars>>]_vars

\* the one valid submit hid the banner and its request is pending; a submit
\* with the query emptied has since shown its message, and the overlay and
\* the timer of the pending request are still in place
C32_Witness ==
    /\ submitted = 1
    /\ requests # {}
    /\ overlayDisplay = "flex"
    /\ stepInterval = <<1>>
    /\ errorDisplay = "block"
    /\ errorText = MissingQueryMsg

\* every selection the user makes in any of the specifications
AnySelection ==
    {<<>>, <<OversizedImage>>} \cup Selections \cup {<<f>> : f \in PreviewFiles}

\* the page as startNewAnalysis leaves it: the input empty, the results and
\* the banner hidden, the preview empty (the text may have been typed since)
Cleared ==
    /\ fileInput = <<>>
    /\ resultsDisplay = "none"
    /\ errorDisplay = "none"
    /\ filePreview = <<>>

\* C33: after startNewAnalysis the results region and the error banner stay
\* hidden and the preview stays empty until the user selects a file or
\* submits: a step that shows one of them in the cleared page is a file
\* selection or a submit, never a response or a file read that was in flight.
C33_StaysCleared ==
    [][Cleared /\ ~(resultsDisplay' = "none" /\ errorDisplay' = "none"
                    /\ filePreview' = <<>>)
       => \/ \E sel \in AnySelection : handleFileSelect(sel)
          \/ handleFormSubmit]_vars

\* C34: whenever the preview is non-empty and no file read is pending, it
\* shows the file currently held by the file input.
C34_PreviewIsSelection ==
    filePreview # <<>> /\ reads = {} => filePreview = fileInput

\* C35: exportResults produces a download only when a result is stored, and
\* the download then holds exactly the stored result, which is the result of
\* the most recently processed successful response: each such response
\* stores its body, and no other step changes what is stored.  With nothing
\* stored, as from page load to the first success, exportResults changes
\* nothing.
C35_ExportsLatestSuccess ==
    [][/\ exportResults
          => IF currentResults = <<>>
             THEN UNCHANGED vars
             ELSE /\ downloads' =
                       Append(downloads, Download(stringify(currentResults[1])))
                  /\ UNCHANGED <<pageVars, reactVars, formatVars>>
       /\ \A r \in requests, body \in ExportBodies :
            JsonSettles(r, body)
            => currentResults' = IF body.parsed /\ body.success
                                 THEN <<body>> ELSE currentResults
       /\ currentResults' # currentResults
          => \E r \in requests, body \in ExportBodies : JsonSettles(r, body)]_vars

\* two exports, of result 2 and then of result 1, each of the result stored
\* when it ran; startNewAnalysis has hidden the results region and kept the
\* stored result
C35_Witness ==
    /\ Len(downloads) = 2
    /\ downloads[1].text.rid = 2
    /\ downloads[2].text.rid = 1
    /\ currentResults # <<>>
    /\ currentResults[1].rid = 1
    /\ resultsDisplay = "none"
    /\ requests = {}

\* the entries a call of trigger(endpoint) may start with
CallingEntries(endpoint) ==
    {Entry(time, "Calling " \o REST_ENDPOINT \o endpoint \o "...") : time \in Times}

\* the entries a call of trigger(endpoint) may end with: the server message,
\* "Success.", or "Error on ..."
OutcomeEntries(endpoint) ==
    {Entry(time, msg) :
       time \in Times,
       msg \in {"Cache cleared", "Success.",
                "Error on " \o endpoint \o ": TypeError: " \o FetchFailedMsg,
                "Error on " \o endpoint \o ": SyntaxError: " \o JsonSyntaxMsg}}

\* the number of entries among the first n of the log, as the step leaves
\* it, that are in set
CountIn(n, set) == Cardinality({i \in 1..n : log'[i] \in set})

\* C36: every trigger call appends exactly one "Calling ..." entry and, when
\* it settles, exactly one outcome entry (the server message, "Success." or
\* "Error on ..."), and nothing in between; the log is append-only; with
\* several calls in flight no entry is lost (the log holds two entries for
\* each settled call and one for each pending call) and outcomes never
\* outnumber the "Calling" entries before them.
C36_AdminLog ==
    [][/\ Len(log') >= Len(log)
       /\ SubSeq(log', 1, Len(log)) = log
       /\ Len(log') = 2 * triggered' - Cardinality(calls')
       /\ \A endpoint \in Endpoints :
            (\E time \in Times : trigger(endpoint, time))
            => /\ Len(log') = Len(log) + 1
               /\ log'[Len(log')] \in CallingEntries(endpoint)
               /\ \E c \in calls' \ calls : c.endpoint = endpoint
       /\ \A c \in calls :
            /\ c \notin calls' /\ (\A d \in calls' : d.id # c.id)
               => /\ Len(log') = Len(log) + 1
                  /\ log'[Len(log')] \in OutcomeEntries(c.endpoint)
            /\ TriggerFetchResolves(c) => log' = log
       /\ \A n \in 1..Len(log') :
            CountIn(n, UNION {OutcomeEntries(e) : e \in Endpoints})
            <= CountIn(n, UNION {CallingEntries(e) : e \in Endpoints})]_vars

\* /reset and then /clear-cache were triggered together; the second call
\* failed first and the first call then logged the server message
C36_Witness ==
    /\ calls = {}
    /\ Len(log) = 4
    /\ log[1] \in CallingEntries("/reset")
    /\ log[2] \in CallingEntries("/clear-cache")
    /\ \E time \in Times :
         log[3] = Entry(time, "Error on /clear-cache: TypeError: " \o FetchFailedMsg)
    /\ \E time \in Times : log[4] = Entry(time, "Cache cleared")

\* the AI messages a settled request may append: an answer or the fixed
\* error text
AiMessages ==
    {Message(<<aiText(data)>>, "ai") : data \in {b \in ChatBodies : b.parsed}}
    \cup {Message(<<ChatErrorText>>, "ai")}

\* C37: handleSendMessage with blank input changes nothing; otherwise it
\* appends exactly one user message, the input as typed, and sets isLoading;
\* the step that settles the request appends exactly one AI message (the
\* answer or the fixed error text) and clears isLoading; no step in between
\* touches the list, so the AI message follows the user message; isLoading
\* is true exactly while the request is unsettled; the list only grows.
C37_ChatSend ==
    [][/\ handleKeyPress
          => IF trim(inputText) = <<>>
             THEN UNCHANGED vars
             ELSE /\ messages' = Append(messages, Message(inputText, "user"))
                  /\ isLoading'
                  /\ asking' # {}
       /\ \A a \in asking :
            /\ a \notin asking' /\ (\A b \in asking' : b.id # a.id)
               => /\ Len(messages') = Len(messages) + 1
                  /\ messages'[Len(messages')] \in AiMessages
                  /\ ~isLoading'
            /\ ChatFetchResponds(a, TRUE) => messages' = messages /\ isLoading'
       /\ Len(messages') >= Len(messages)
       /\ SubSeq(messages', 1, Len(messages)) = messages
       /\ isLoading' <=> asking' # {}
       /\ messages'[Len(messages')].sender = (IF isLoading' THEN "user" ELSE "ai")
       /\ Len(messages') = 1 + 2 * sent' - Cardinality(asking')]_vars

\* two sends have settled: the first got the error text, the second, sent
\* with blanks around the word, the serialised body of an answer without
\* response and result
C37_Witness ==
    /\ ~isLoading
    /\ asking = {}
    /\ Len(messages) = 5
    /\ messages[2] = Message(<<"h", "i">>, "user")
    /\ messages[3] = Message(<<ChatErrorText>>, "ai")
    /\ messages[4] = Message(<<" ", "h", "i", " ">>, "user")
    /\ messages[5] = Message(<<"{}">>, "ai")

\* m / 1024^unitIndex(m) rounded to two decimals, printed: the hundredths
\* below the quotient, or the next when the rest is at least half of one
RoundedQuotient(m) ==
    LET p == pow(1024, unitIndex(m))
        below == (100 * m) \div p
    IN printHundredths(IF 2 * (100 * m - below * p) >= p THEN below + 1 ELSE below)

\* C38: formatFileSize maps every byte count n >= 0 to a value with a unit
\* from Bytes, KB, MB, GB: "0 Bytes" for n = 0, otherwise n / 1024^i rounded
\* to two decimals, i = floor(log_1024 n), with the i-th unit; the unit is
\* never missing, for n >= 1024^4 either.
C38_UnitDefined ==
    formatted # <<>>
    => LET parts == formatted[1]
           i == unitIndex(byteCount.m) + byteCount.e
       IN IF byteCount.m = 0
          THEN formatText(parts) = "0 Bytes"
          ELSE /\ parts.unit # <<>>
               /\ parts.unit[1] \in {"Bytes", "KB", "MB", "GB"}
               /\ i <= 3 => parts.unit[1] = <<"Bytes", "KB", "MB", "GB">>[i + 1]
               /\ parts.number = RoundedQuotient(byteCount.m)

===========================================================================
